---------------------------- MODULE Spec2Model ----------------------------
(***************************************************************************)
(* A model of MediaInfoParser (src/mediainfo_parser.py): parse_file, the   *)
(* line scan with its open-track state, _parse_key_value, the channel      *)
(* layout label and get_language_flag.                                     *)
(*                                                                         *)
(* Python strings are TLA+ strings (sequences of characters); the string   *)
(* methods the parser uses (strip, startswith, split, lower, upper, find,  *)
(* replace, join) are operators that compute what the methods compute.     *)
(* Python dicts are functions whose domain is the set of keys present.     *)
(* Track objects live in `heap`; the output lists hold references into it, *)
(* as info["audio"] holds the very __dict__ of the track object.           *)
(* `returned` records what finished calls handed back, and `other` is the  *)
(* frame of a second call on the same parser, for the claims about calls   *)
(* that follow or overlap one another.                                     *)
(***************************************************************************)
EXTENDS Naturals, Integers, Sequences, FiniteSets, TLC

VARIABLES
    f,                  \* the lines of the file at file_path, as read
    pc,                 \* position in parse_file
    lines,              \* content.split("\n")
    i,                  \* number of lines of `lines` the loop has consumed
    info,               \* the dict parse_file builds and returns
    heap,               \* track objects by identity: id -> __dict__
    current_section,
    current_track,      \* id of the open track object, or NoTrack
    current_track_type,
    other,              \* the frame of a second call of parse_file on the same
                        \* parser, in a thread that is not running now
    returned,           \* the calls that have returned, in order: what each
                        \* was given and what it handed to its caller
    now,                \* datetime.now()
    db,                 \* the rows of table media_info, by id
    disk,               \* the names of the files in UPLOAD_FOLDER
    sweep,              \* delete_expired_media as each thread is running it
    request,            \* the locals of the index() call that is under way
    response            \* what the last request handled was answered with

vars == <<f, pc, lines, i, info, heap, current_section, current_track,
          current_track_type, other, returned, now, db, disk, sweep, request,
          response>>

\* the state of the application around the parser
site == <<now, db, disk, sweep, request, response>>

\* what the running call leaves to the other call and to its callers
callers == <<other, returned, site>>

(***************************************************************************)
(* Bounds of the model.                                                    *)
(***************************************************************************)
MaxLines == 4

\* calls that return in one behaviour
MaxCalls == 2

(***************************************************************************)
(* Python's None, for the section and the track type (strings) and for     *)
(* the track handle (object ids are positive).                             *)
(***************************************************************************)
None == "None"
NoTrack == 0

(***************************************************************************)
(* str methods.                                                            *)
(***************************************************************************)
\* F applied to the value of x, which is computed once
Bind(x, F(_)) == CHOOSE r \in {F(v) : v \in {x}} : TRUE

Char(s, k) == SubSeq(s, k, k)

Whitespace == {" ", "\t", "\n", "\r", "\f"}

MinOf(S) == CHOOSE x \in S : \A y \in S : x <= y
MaxOf(S) == CHOOSE x \in S : \A y \in S : x >= y

\* s.strip()
strip(s) ==
    Bind(s, LAMBDA t :
        Bind({k \in 1..Len(t) : Char(t, k) \notin Whitespace}, LAMBDA keep :
            IF keep = {} THEN "" ELSE SubSeq(t, MinOf(keep), MaxOf(keep))))

\* s.startswith(p)
startswith(s, p) == Len(s) >= Len(p) /\ SubSeq(s, 1, Len(p)) = p

\* s.find(sub): 0-based index of the first occurrence, -1 when there is none
find(s, sub) ==
    Bind(s, LAMBDA t :
        Bind({k \in 1..(Len(t) - Len(sub) + 1) : SubSeq(t, k, k + Len(sub) - 1) = sub},
             LAMBDA at : IF at = {} THEN -1 ELSE MinOf(at) - 1))

\* sub in s
contains(s, sub) == find(s, sub) >= 0

\* s[a:b] for a, b >= 0
Slice(s, a, b) ==
    LET hi == IF b > Len(s) THEN Len(s) ELSE b
    IN  IF a >= hi THEN "" ELSE SubSeq(s, a + 1, hi)

LowerLetters == "abcdefghijklmnopqrstuvwxyz"
UpperLetters == "ABCDEFGHIJKLMNOPQRSTUVWXYZ"

MapChar(c, from, to) ==
    LET p == find(from, c) IN IF p < 0 THEN c ELSE Char(to, p + 1)

\* the characters of s from the k-th on, each mapped
RECURSIVE MapStr(_, _, _, _)
MapStr(s, k, from, to) ==
    IF k > Len(s) THEN ""
    ELSE MapChar(Char(s, k), from, to) \o MapStr(s, k + 1, from, to)

\* s.lower(), s.upper()
lower(s) == Bind(s, LAMBDA t : MapStr(t, 1, UpperLetters, LowerLetters))
upper(s) == Bind(s, LAMBDA t : MapStr(t, 1, LowerLetters, UpperLetters))

\* the j-th smallest member of the set P of numbers
Nth(P, j) == CHOOSE p \in P : Cardinality({q \in P : q < p}) = j - 1

\* s.split(sep): every piece between occurrences of the one-character sep
splitAll(s, sep) ==
    Bind(s, LAMBDA t :
        Bind({k \in 1..Len(t) : Char(t, k) = sep}, LAMBDA at :
            [j \in 1..(Cardinality(at) + 1) |->
                SubSeq(t, IF j = 1 THEN 1 ELSE Nth(at, j - 1) + 1,
                          IF j = Cardinality(at) + 1 THEN Len(t)
                          ELSE Nth(at, j) - 1)]))

\* split1 without the limit of one split: s.split(sep)
splitEvery(s, sep) == splitAll(s, sep)

\* s.split(sep, 1) for a sep that occurs in s: the two sides of the first sep
split1(s, sep) ==
    Bind(s, LAMBDA t :
        Bind(find(t, sep), LAMBDA p :
            <<Slice(t, 0, p), Slice(t, p + Len(sep), Len(t))>>))

\* sep.join(parts), from the k-th part on
RECURSIVE joinFrom(_, _, _)
joinFrom(sep, parts, k) ==
    IF k > Len(parts) THEN ""
    ELSE IF k = Len(parts) THEN parts[k]
    ELSE parts[k] \o sep \o joinFrom(sep, parts, k + 1)

join(sep, parts) == Bind(parts, LAMBDA ps : joinFrom(sep, ps, 1))

\* s.split(): the maximal runs of non-whitespace characters
\* the k-th character of s is part of a word
InWord(s, k) == k >= 1 /\ k <= Len(s) /\ Char(s, k) \notin Whitespace

split(s) ==
    Bind(s, LAMBDA t :
        Bind({k \in 1..Len(t) : InWord(t, k) /\ ~InWord(t, k - 1)}, LAMBDA starts :
            Bind({k \in 1..Len(t) : InWord(t, k) /\ ~InWord(t, k + 1)}, LAMBDA ends :
                [j \in 1..Cardinality(starts) |->
                    SubSeq(t, Nth(starts, j), Nth(ends, j))])))

\* s.replace(old, new) from the k-th character on: the non-overlapping
\* occurrences of old, left to right
RECURSIVE replaceFrom(_, _, _, _)
replaceFrom(s, k, old, new) ==
    IF k > Len(s) THEN ""
    ELSE IF k + Len(old) - 1 <= Len(s) /\ SubSeq(s, k, k + Len(old) - 1) = old
        THEN new \o replaceFrom(s, k + Len(old), old, new)
    ELSE Char(s, k) \o replaceFrom(s, k + 1, old, new)

replace(s, old, new) == Bind(s, LAMBDA t : replaceFrom(t, 1, old, new))

\* str(n) for n >= 0
RECURSIVE str(_)
str(n) ==
    IF n < 10 THEN Char("0123456789", n + 1)
    ELSE str(n \div 10) \o Char("0123456789", (n % 10) + 1)

(***************************************************************************)
(* dicts.                                                                  *)
(***************************************************************************)
EmptyDict == [k \in {} |-> ""]

\* d[k] = v
SetKey(d, k, v) == [x \in (DOMAIN d) \cup {k} |-> IF x = k THEN v ELSE d[x]]

\* the truth value of d.get(k): the key is present and its string is not empty
Truthy(d, k) == k \in DOMAIN d /\ d[k] # ""

\* AudioTrack().__dict__ and SubtitleTrack().__dict__
AudioTrack ==
    [language |-> "", format |-> "", channels |-> "", bit_rate |-> "",
     format_settings |-> "", sampling_rate |-> "", commercial_name |-> "",
     title |-> "", flag |-> ""]

SubtitleTrack == [language |-> "", flag |-> ""]

(***************************************************************************)
(* get_language_flag.  A flag glyph is a pair of regional-indicator        *)
(* symbols, written here as the two letters in lower case between bars.    *)
(***************************************************************************)
language_flags ==
    [JP |-> "|jp|", JA |-> "|jp|", EN |-> "|us|", US |-> "|us|", GB |-> "|gb|",
     FR |-> "|fr|", ES |-> "|es|", DE |-> "|de|", IT |-> "|it|", CN |-> "|cn|",
     ZH |-> "|cn|", KO |-> "|kr|", KR |-> "|kr|", RU |-> "|ru|"]

\* LanguageCode with the slice ending at the last `)` instead of the first
LanguageCodeToLastParen(lang_code) ==
    Bind(upper(strip(lang_code)), LAMBDA code :
        IF contains(code, "(") /\ contains(code, ")")
        THEN strip(Slice(code, find(code, "(") + 1,
                         MaxOf({k \in 1..Len(code) : Char(code, k) = ")"}) - 1))
        ELSE code)

\* lines 42-44: the code that is looked up
LanguageCode(lang_code) ==
    Bind(upper(strip(lang_code)), LAMBDA code :
        IF contains(code, "(") /\ contains(code, ")")
        THEN strip(Slice(code, find(code, "(") + 1, find(code, ")")))
        ELSE code)

\* `not lang_code` holds of None and of the empty string
get_language_flag(lang_code) ==
    IF lang_code = None \/ lang_code = "" THEN ""
    ELSE Bind(LanguageCode(lang_code), LAMBDA code :
             IF code \in DOMAIN language_flags THEN language_flags[code] ELSE "")

(***************************************************************************)
(* The channel layout label of _parse_key_value's audio branch.            *)
(***************************************************************************)
main_channel_names ==
    {"Lscr", "Rscr", "C", "Lc", "Rc", "L", "R", "Lw", "Rw", "Lss", "Rss", "Ls",
     "Rs", "Lsd", "Rsd", "Lb", "Rb", "Cb", "M"}

height_channel_names ==
    {"Bfc", "Bfl", "Bfr", "Tfc", "Vhl", "Vhr", "Tfl", "Tfr", "Tsl", "Tsr", "Lvs",
     "Rvs", "Tbl", "Tbr", "Tbc", "Tc"}

lfe_channel_names == {"LFE", "LFE2"}

\* one pass of the loop over `channels`: the three counters after `channel`
CountChannel(channel, n) ==
    IF channel \in main_channel_names
        THEN [n EXCEPT !.main = @ + 1]
    ELSE IF channel \in lfe_channel_names
        THEN [n EXCEPT !.lfe = @ + 1]
    ELSE IF channel \in height_channel_names
        THEN [n EXCEPT !.height = @ + 1]
    ELSE n

\* the counters after the first k passes of the loop
RECURSIVE CountChannels(_, _)
CountChannels(channels, k) ==
    IF k = 0 THEN [main |-> 0, lfe |-> 0, height |-> 0]
    ELSE CountChannel(channels[k], CountChannels(channels, k - 1))

\* FormatChannels with the height printed even when it is zero
FormatChannelsWithHeight(n) ==
    str(n.main) \o "." \o str(n.lfe) \o "." \o str(n.height)

\* the f-string: main.lfe, and .height when height_channels > 0
FormatChannels(n) ==
    str(n.main) \o "." \o str(n.lfe)
        \o (IF n.height > 0 THEN "." \o str(n.height) ELSE "")

ChannelLayout(value) ==
    Bind(split(value), LAMBDA channels :
        Bind(CountChannels(channels, Len(channels)), LAMBDA n : FormatChannels(n)))

(***************************************************************************)
(* _parse_key_value.  Each section's branch is the new dict of the record  *)
(* it writes to; a key none of its tests accepts leaves the dict as it is. *)
(***************************************************************************)
GeneralKeyValue(key, value, d) ==
    IF key = "format" THEN SetKey(d, "format", value)
    ELSE IF key = "duration" THEN SetKey(d, "duration", value)
    ELSE IF key \in {"overall bit rate", "bit rate"} THEN SetKey(d, "bitrate", value)
    ELSE IF key \in {"file size", "size"} THEN SetKey(d, "size", value)
    ELSE IF key = "frame rate" THEN SetKey(d, "frame_rate", value)
    ELSE IF key = "complete name" THEN SetKey(d, "complete_name", value)
    ELSE IF key = "movie name" THEN SetKey(d, "movie_name", value)
    ELSE d

\* value.replace("pixels", "").replace(" ", "").strip()
Pixels(value) == strip(replace(replace(value, "pixels", ""), " ", ""))

VideoKeyValue(key, value, d) ==
    IF key = "format" THEN SetKey(d, "format", value)
    ELSE IF key = "width" THEN SetKey(d, "width", Pixels(value))
    ELSE IF key = "height" THEN SetKey(d, "height", Pixels(value))
    ELSE IF key \in {"display aspect ratio", "aspect ratio"}
        THEN SetKey(d, "aspect_ratio", value)
    ELSE IF key \in {"frame rate", "frame rate mode"} THEN SetKey(d, "frame_rate", value)
    ELSE IF key \in {"bit rate", "nominal bit rate"} THEN SetKey(d, "bit_rate", value)
    ELSE IF key \in {"bit depth", "bit depth (bits)"} THEN SetKey(d, "bit_depth", value)
    ELSE IF key = "hdr format" THEN SetKey(d, "hdr_format", value)
    ELSE IF key = "color primaries" THEN SetKey(d, "color_primaries", value)
    ELSE IF key = "transfer characteristics"
        THEN SetKey(d, "transfer_characteristics", value)
    ELSE IF key = "title" THEN SetKey(d, "title", value)
    ELSE IF key = "stream size" THEN SetKey(d, "stream_size", value)
    ELSE d

AudioKeyValue(key, value, d) ==
    IF key = "language" THEN SetKey(d, "language", value)
    ELSE IF key = "format" THEN SetKey(d, "format", value)
    ELSE IF key = "channel layout" THEN SetKey(d, "channels", ChannelLayout(value))
    ELSE IF key \in {"bit rate", "nominal bit rate"} THEN SetKey(d, "bit_rate", value)
    ELSE IF key = "format settings" THEN SetKey(d, "format_settings", value)
    ELSE IF key \in {"sampling rate", "sampling frequency"}
        THEN SetKey(d, "sampling_rate", value)
    ELSE IF key = "commercial name" THEN SetKey(d, "commercial_name", value)
    ELSE IF key = "title" THEN SetKey(d, "title", value)
    ELSE IF key = "stream size" THEN SetKey(d, "stream_size", value)
    ELSE IF key = "default" THEN SetKey(d, "default", value)
    ELSE d

\* TextKeyValue with `format` taken as well
TextKeyValueWithFormat(key, value, d) ==
    IF key = "language" THEN SetKey(d, "language", value)
    ELSE IF key = "format" THEN SetKey(d, "format", value)
    ELSE IF key = "title" THEN SetKey(d, "title", value)
    ELSE IF key = "default" THEN SetKey(d, "default", value)
    ELSE IF key = "forced" THEN SetKey(d, "forced", value)
    ELSE d

TextKeyValue(key, value, d) ==
    IF key = "language" THEN SetKey(d, "language", value)
    ELSE IF key = "title" THEN SetKey(d, "title", value)
    ELSE IF key = "default" THEN SetKey(d, "default", value)
    ELSE IF key = "forced" THEN SetKey(d, "forced", value)
    ELSE d

\* _parse_key_value with the general branch taken when no section is active
parse_key_value_unsectioned(key, value, section, inf, hp, track) ==
    Bind(lower(key), LAMBDA k :
        IF section = "general" \/ section = None
            THEN <<[inf EXCEPT !.general = GeneralKeyValue(k, value, @)], hp>>
        ELSE IF section = "video"
            THEN <<[inf EXCEPT !.video = VideoKeyValue(k, value, @)], hp>>
        ELSE IF section = "audio" /\ track # NoTrack
            THEN <<inf, [hp EXCEPT ![track] = AudioKeyValue(k, value, @)]>>
        ELSE IF section = "text" /\ track # NoTrack
            THEN <<inf, [hp EXCEPT ![track] = TextKeyValue(k, value, @)]>>
        ELSE <<inf, hp>>)

\* the pair <<info, heap>> after _parse_key_value(key, value, section, info, track)
parse_key_value(key, value, section, inf, hp, track) ==
    Bind(lower(key), LAMBDA k :
        IF section = "general"
            THEN <<[inf EXCEPT !.general = GeneralKeyValue(k, value, @)], hp>>
        ELSE IF section = "video"
            THEN <<[inf EXCEPT !.video = VideoKeyValue(k, value, @)], hp>>
        ELSE IF section = "audio" /\ track # NoTrack
            THEN <<inf, [hp EXCEPT ![track] = AudioKeyValue(k, value, @)]>>
        ELSE IF section = "text" /\ track # NoTrack
            THEN <<inf, [hp EXCEPT ![track] = TextKeyValue(k, value, @)]>>
        ELSE <<inf, hp>>)

(***************************************************************************)
(* parse_file.                                                             *)
(***************************************************************************)
\* "\n".join(line.strip() for line in f if line.strip()), then .split("\n")
StrippedNonBlank(raw) ==
    Bind({k \in 1..Len(raw) : strip(raw[k]) # ""}, LAMBDA kept :
        [j \in 1..Cardinality(kept) |-> strip(raw[Nth(kept, j)])])

ReadContent(raw) == splitAll(join("\n", StrippedNonBlank(raw)), "\n")

\* LineKind with the test for a colon made before the tests for a header
LineKindColonFirst(line) ==
    IF line = "" THEN "blank"
    ELSE IF contains(line, ":") THEN "keyvalue"
    ELSE IF line = "General" THEN "general"
    ELSE IF startswith(line, "Video") THEN "video"
    ELSE IF startswith(line, "Audio") THEN "audio"
    ELSE IF startswith(line, "Text") THEN "text"
    ELSE IF line = "Menu" THEN "menu"
    ELSE "other"

\* the first test of the loop body that a (stripped) line passes
LineKind(line) ==
    IF line = "" THEN "blank"
    ELSE IF line = "General" THEN "general"
    ELSE IF startswith(line, "Video") THEN "video"
    ELSE IF startswith(line, "Audio") THEN "audio"
    ELSE IF startswith(line, "Text") THEN "text"
    ELSE IF line = "Menu" THEN "menu"
    ELSE IF contains(line, ":") THEN "keyvalue"
    ELSE "other"

\* the line the loop is at, stripped
Line == strip(lines[i + 1])

\* the loop is at a line of the given kind
AtLine(kind) ==
    /\ pc = "scan"
    /\ i < Len(lines)
    /\ \E line \in {Line} : LineKind(line) = kind

\* list.append
Append1(list, x) == list \o <<x>>

\* a header that keeps writing to the open track object instead of a new one
ReusedTrack == IF current_track # NoTrack THEN current_track ELSE i + 1

\* the object a header at line i + 1 allocates: its id is the line's number
NewTrack == i + 1

\* FlushAudio with the track put at the front of the list
FlushAudioFront(audio, track, type) ==
    IF track # NoTrack /\ type = "audio" THEN <<track>> \o audio ELSE audio

\* info["audio"] after `if current_track and current_track_type == "audio": append`
FlushAudio(audio, track, type) ==
    IF track # NoTrack /\ type = "audio" THEN Append1(audio, track) ELSE audio

\* info["subtitles"] after `if current_track and current_track_type == "text": append`
FlushText(subtitles, track, type) ==
    IF track # NoTrack /\ type = "text" THEN Append1(subtitles, track) ELSE subtitles

\* the output lists after each header's own flushes
AudioHeaderFlush(inf, track, type) ==
    [inf EXCEPT !.audio = FlushAudio(@, track, type)]

TextHeaderFlush(inf, track, type) ==
    [inf EXCEPT !.audio = FlushAudio(@, track, type),
                !.subtitles = FlushText(@, track, type)]

\* MenuHeaderFlush with the open audio track appended as well
MenuHeaderFlushBoth(inf, track, type) ==
    [inf EXCEPT !.audio = FlushAudio(@, track, type),
                !.subtitles = FlushText(@, track, type)]

MenuHeaderFlush(inf, track, type) ==
    [inf EXCEPT !.subtitles = FlushText(@, track, type)]

\* EndFlush without lines 112-113
EndFlushAudioOnly(inf, track, type) ==
    [inf EXCEPT !.audio = FlushAudio(@, track, type)]

EndFlush(inf, track, type) ==
    [inf EXCEPT !.audio = FlushAudio(@, track, type),
                !.subtitles = FlushText(@, track, type)]

(***************************************************************************)
(* The files read: up to MaxLines lines, each from FileLines.              *)
(***************************************************************************)
FileLines ==
    {"General", "Video", "Audio #1", "Text #1", "Menu", "Other #1",
     "Format: AC-3", " Language : English (EN) "}

SeqsUpTo(S, n) == UNION {[1..k -> S] : k \in 0..n}

Files == SeqsUpTo(FileLines, MaxLines)

\* the threads that run delete_expired_media: MediaInfoShare.run at start-up
\* (app.py 257) and cleanup_task every hour (app.py 210-218)
Threads == {"run", "cleanup_task"}

\* a thread that is not inside delete_expired_media
NotSweeping == [pc |-> "idle", expired_files |-> {}]

\* no index() call is under way
NoRequest == [mediainfo_text |-> None, filename |-> None]

\* no request has been handled
NoResponse ==
    [route |-> None, media_id |-> None, method |-> None, password |-> None,
     at |-> 0, redirect |-> None, template |-> None, media_info |-> None,
     file |-> None, flash |-> None]

\* the frame of a call that has not begun
NoCall ==
    [f |-> <<>>, pc |-> "idle", lines |-> <<>>, i |-> 0,
     info |-> [general |-> EmptyDict, video |-> EmptyDict, audio |-> <<>>,
               subtitles |-> <<>>],
     heap |-> EmptyDict, current_section |-> None, current_track |-> NoTrack,
     current_track_type |-> None]

\* a parser has been constructed; parse_file has not been called
Init ==
    /\ f = <<>>
    /\ pc = "idle"
    /\ lines = <<>>
    /\ i = 0
    /\ info = [general |-> EmptyDict, video |-> EmptyDict, audio |-> <<>>,
               subtitles |-> <<>>]
    /\ heap = EmptyDict
    /\ current_section = None
    /\ current_track = NoTrack
    /\ current_track_type = None
    /\ other = NoCall
    /\ returned = <<>>
    /\ now = 0
    /\ db = EmptyDict
    /\ disk = {}
    /\ sweep = [t \in Threads |-> NotSweeping]
    /\ request = NoRequest
    /\ response = NoResponse

\* Call with info kept from the call before instead of built anew
CallKeepingInfo(files) ==
    /\ pc = "idle"
    /\ \E file \in files :
           /\ f' = file
           /\ lines' = ReadContent(file)
    /\ pc' = "scan"
    /\ i' = 0
    /\ current_section' = None
    /\ current_track' = NoTrack
    /\ current_track_type' = None
    /\ UNCHANGED <<info, heap>>
    /\ UNCHANGED callers

\* Call with the scan beginning in the General section
CallStartingInGeneral(files) ==
    /\ pc = "idle"
    /\ \E file \in files :
           /\ f' = file
           /\ lines' = ReadContent(file)
    /\ pc' = "scan"
    /\ i' = 0
    /\ info' = [general |-> EmptyDict, video |-> EmptyDict, audio |-> <<>>,
                subtitles |-> <<>>]
    /\ current_section' = "general"
    /\ current_track' = NoTrack
    /\ current_track_type' = None
    /\ UNCHANGED heap
    /\ UNCHANGED callers

\* lines 48-63: parse_file is called on a file of `files`, which is read, and
\* the locals are set
Call(files) ==
    /\ pc = "idle"
    /\ \E file \in files :
           /\ f' = file
           /\ lines' = ReadContent(file)
    /\ pc' = "scan"
    /\ i' = 0
    /\ info' = [general |-> EmptyDict, video |-> EmptyDict, audio |-> <<>>,
                subtitles |-> <<>>]
    /\ current_section' = None
    /\ current_track' = NoTrack
    /\ current_track_type' = None
    /\ UNCHANGED heap
    /\ UNCHANGED callers

ParseFile == Call(Files)

\* line 51 raises (no such file, no permission, not UTF-8): lines 125-127
OpenFails ==
    /\ pc = "idle"
    /\ pc' = "raised"
    /\ UNCHANGED <<f, lines, i, info, heap, current_section, current_track,
                   current_track_type>>
    /\ UNCHANGED callers

\* lines 67-68
BlankLine ==
    /\ AtLine("blank")
    /\ i' = i + 1
    /\ UNCHANGED <<f, pc, lines, info, heap, current_section, current_track,
                   current_track_type>>
    /\ UNCHANGED callers

\* GeneralHeader without lines 71-72: the open track stays open
GeneralHeaderKeepingTrack ==
    /\ AtLine("general")
    /\ i' = i + 1
    /\ current_section' = "general"
    /\ UNCHANGED <<f, pc, lines, info, heap, current_track, current_track_type>>
    /\ UNCHANGED callers

\* lines 69-73
GeneralHeader ==
    /\ AtLine("general")
    /\ i' = i + 1
    /\ current_section' = "general"
    /\ current_track' = NoTrack
    /\ current_track_type' = None
    /\ UNCHANGED <<f, pc, lines, info, heap>>
    /\ UNCHANGED callers

\* lines 74-78
VideoHeader ==
    /\ AtLine("video")
    /\ i' = i + 1
    /\ current_section' = "video"
    /\ current_track' = NoTrack
    /\ current_track_type' = None
    /\ UNCHANGED <<f, pc, lines, info, heap>>
    /\ UNCHANGED callers

\* lines 79-85
AudioHeader ==
    /\ AtLine("audio")
    /\ i' = i + 1
    /\ info' = AudioHeaderFlush(info, current_track, current_track_type)
    /\ current_section' = "audio"
    /\ heap' = SetKey(heap, NewTrack, AudioTrack)
    /\ current_track' = NewTrack
    /\ current_track_type' = "audio"
    /\ UNCHANGED <<f, pc, lines>>
    /\ UNCHANGED callers

\* lines 86-94
TextHeader ==
    /\ AtLine("text")
    /\ i' = i + 1
    /\ info' = TextHeaderFlush(info, current_track, current_track_type)
    /\ current_section' = "text"
    /\ heap' = SetKey(heap, NewTrack, SubtitleTrack)
    /\ current_track' = NewTrack
    /\ current_track_type' = "text"
    /\ UNCHANGED <<f, pc, lines>>
    /\ UNCHANGED callers

\* lines 95-101
MenuHeader ==
    /\ AtLine("menu")
    /\ i' = i + 1
    /\ info' = MenuHeaderFlush(info, current_track, current_track_type)
    /\ current_section' = "menu"
    /\ current_track' = NoTrack
    /\ current_track_type' = None
    /\ UNCHANGED <<f, pc, lines, heap>>
    /\ UNCHANGED callers

\* KeyValueLine with the value taken as the split leaves it, untrimmed
KeyValueLineUntrimmed ==
    /\ AtLine("keyvalue")
    /\ \E line \in {Line} :
       \E kv \in {split1(line, ":")} :
           IF Len(kv) = 2
           THEN /\ i' = i + 1
                /\ pc' = pc
                /\ \E key \in {strip(kv[1])}, value \in {kv[2]} :
                   \E res \in {parse_key_value(key, value, current_section, info,
                                               heap, current_track)} :
                       info' = res[1] /\ heap' = res[2]
           ELSE /\ pc' = "raised"
                /\ UNCHANGED <<i, info, heap>>
    /\ UNCHANGED <<f, lines, current_section, current_track, current_track_type>>
    /\ UNCHANGED callers

\* lines 103-107; `key, value = ...` raises ValueError unless the split gave
\* two pieces, and the except clause re-raises it (lines 125-127)
KeyValueLine ==
    /\ AtLine("keyvalue")
    /\ \E line \in {Line} :
       \E kv \in {split1(line, ":")} :
           IF Len(kv) = 2
           THEN /\ i' = i + 1
                /\ pc' = pc
                /\ \E key \in {strip(kv[1])}, value \in {strip(kv[2])} :
                   \E res \in {parse_key_value(key, value, current_section, info,
                                               heap, current_track)} :
                       info' = res[1] /\ heap' = res[2]
           ELSE /\ pc' = "raised"
                /\ UNCHANGED <<i, info, heap>>
    /\ UNCHANGED <<f, lines, current_section, current_track, current_track_type>>
    /\ UNCHANGED callers

\* a line that passes none of the tests: the loop goes on to the next line
OtherLine ==
    /\ AtLine("other")
    /\ i' = i + 1
    /\ UNCHANGED <<f, pc, lines, info, heap, current_section, current_track,
                   current_track_type>>
    /\ UNCHANGED callers

\* lines 109-113: the loop is over
EndOfInput ==
    /\ pc = "scan"
    /\ i = Len(lines)
    /\ pc' = "flags"
    /\ info' = EndFlush(info, current_track, current_track_type)
    /\ UNCHANGED <<f, lines, i, heap, current_section, current_track,
                   current_track_type>>
    /\ UNCHANGED callers

\* track["flag"] = get_language_flag(track["language"]) if track.get("language")
WithFlag(d) ==
    IF Truthy(d, "language") THEN SetKey(d, "flag", get_language_flag(d["language"]))
    ELSE d

\* ListedTracks without lines 119-121: the subtitles are passed over
ListedAudioTracks(inf) == {inf.audio[k] : k \in 1..Len(inf.audio)}

ListedTracks(inf) ==
    {inf.audio[k] : k \in 1..Len(inf.audio)}
        \cup {inf.subtitles[k] : k \in 1..Len(inf.subtitles)}

\* lines 115-123: the flags of the listed tracks, and the return
ResolveFlags ==
    /\ pc = "flags"
    /\ pc' = "done"
    /\ heap' = [t \in DOMAIN heap |->
                    IF t \in ListedTracks(info) THEN WithFlag(heap[t]) ELSE heap[t]]
    /\ UNCHANGED <<f, lines, i, info, current_section, current_track,
                   current_track_type>>
    /\ UNCHANGED callers

\* the steps of parse_file once the file is read
Step ==
    \/ BlankLine
    \/ GeneralHeader
    \/ VideoHeader
    \/ AudioHeader
    \/ TextHeader
    \/ MenuHeader
    \/ KeyValueLine
    \/ OtherLine
    \/ EndOfInput
    \/ ResolveFlags

Next ==
    \/ ParseFile
    \/ OpenFails
    \/ Step

Spec == Init /\ [][Next]_vars

\* parse_file runs in its caller's thread: a step it can take, it takes
FairSpec == Spec /\ WF_vars(Step)

(***************************************************************************)
(* The files read to exercise the channel layout label: one audio track    *)
(* with one `Channel layout` line, whose value is any string of up to      *)
(* MaxLayoutLen characters of LayoutChars, or one of LayoutExamples.       *)
(***************************************************************************)
MaxLayoutLen == 4

LayoutChars == {"L", "F", "E", "c", "T", " "}

LayoutExamples ==
    {"L R C LFE Ls Rs", "L R C LFE Ls Rs Tfl Tfr", "L R", "", "X Y",
     "LFE\tLFE2  Tc Tc L"}

RECURSIVE StringsOfLen(_, _)
StringsOfLen(chars, n) ==
    IF n = 0 THEN {""}
    ELSE {s \o c : s \in StringsOfLen(chars, n - 1), c \in chars}

StringsUpTo(chars, n) == UNION {StringsOfLen(chars, k) : k \in 0..n}

LayoutValues == StringsUpTo(LayoutChars, MaxLayoutLen) \cup LayoutExamples

LayoutFiles == {<<"Audio", "Channel layout:" \o v>> : v \in LayoutValues}

ParseLayoutFile == Call(LayoutFiles)

NextLayout ==
    \/ ParseLayoutFile
    \/ AudioHeader
    \/ KeyValueLine
    \/ EndOfInput
    \/ ResolveFlags

SpecLayout == Init /\ [][NextLayout]_vars

(***************************************************************************)
(* Calls one after another and calls side by side on one parser.  app.py   *)
(* keeps a single MediaInfoParser and calls its parse_file from every      *)
(* upload request.                                                         *)
(***************************************************************************)
\* the dict a caller receives, by value: each list entry is the dict of the
\* track object it refers to
Record(inf, hp) ==
    [general   |-> inf.general,
     video     |-> inf.video,
     audio     |-> [k \in 1..Len(inf.audio) |-> hp[inf.audio[k]]],
     subtitles |-> [k \in 1..Len(inf.subtitles) |-> hp[inf.subtitles[k]]]]

\* line 123: `return info`.  The locals are dead; the next call assigns them
\* anew (lines 52-63).
Return ==
    /\ pc = "done"
    /\ Len(returned) < MaxCalls
    /\ pc' = "idle"
    /\ returned' = Append(returned, [method |-> "parse_file", arg |-> f,
                                     ret |-> Record(info, heap)])
    /\ UNCHANGED <<f, lines, i, info, heap, current_section, current_track,
                   current_track_type, other>>
    /\ UNCHANGED site

\* the locals of the running call, and the objects only they refer to
Frame ==
    [f |-> f, pc |-> pc, lines |-> lines, i |-> i, info |-> info, heap |-> heap,
     current_section |-> current_section, current_track |-> current_track,
     current_track_type |-> current_track_type]

\* Switch with current_section kept in the parser object instead of a local
SwitchSharingSection ==
    /\ other' = Frame
    /\ f' = other.f
    /\ pc' = other.pc
    /\ lines' = other.lines
    /\ i' = other.i
    /\ info' = other.info
    /\ heap' = other.heap
    /\ current_track' = other.current_track
    /\ current_track_type' = other.current_track_type
    /\ UNCHANGED <<current_section, returned>>
    /\ UNCHANGED site

\* the interpreter suspends the running thread and resumes the other one:
\* every name of parse_file (lines 52-63) is a local of its own call, and the
\* objects a call creates (lines 54-59, 83, 92) are reachable from them only
Switch ==
    /\ other' = Frame
    /\ f' = other.f
    /\ pc' = other.pc
    /\ lines' = other.lines
    /\ i' = other.i
    /\ info' = other.info
    /\ heap' = other.heap
    /\ current_section' = other.current_section
    /\ current_track' = other.current_track
    /\ current_track_type' = other.current_track_type
    /\ UNCHANGED returned
    /\ UNCHANGED site

\* the files of callers that call more than once
MaxCallerLines == 2

CallerLines == {"Audio", "Format: AC-3"}

CallerFiles == SeqsUpTo(CallerLines, MaxCallerLines)

ParseCallerFile == Call(CallerFiles)

\* one caller, one call after another
NextAgain ==
    \/ ParseCallerFile
    \/ BlankLine
    \/ AudioHeader
    \/ KeyValueLine
    \/ EndOfInput
    \/ ResolveFlags
    \/ Return

SpecAgain == Init /\ [][NextAgain]_vars

\* two callers, their calls interleaved at any step
NextTwo ==
    \/ NextAgain
    \/ Switch

SpecTwo == Init /\ [][NextTwo]_vars

(***************************************************************************)
(* get_language_flag called on its own, on a new parser: the language is   *)
(* missing (None), any string of up to MaxLanguageLen characters of        *)
(* LanguageChars, or one of LanguageExamples.                              *)
(***************************************************************************)
MaxLanguageLen == 4

LanguageChars == {"e", "N", "(", ")", " "}

LanguageExamples ==
    {"English (EN)", "Japanese (JA)", "ja", "xx", " fr ", "English (en)",
     "x) English (EN)", "((EN))", "Korean (KO) (KR)", "German ( de )"}

LanguageStrings ==
    StringsUpTo(LanguageChars, MaxLanguageLen) \cup LanguageExamples \cup {None}

\* lines 37-46, called with one of codes
GetLanguageFlag(codes) ==
    /\ pc = "idle"
    /\ returned = <<>>
    /\ \E lang_code \in codes :
           returned' = Append(returned, [method |-> "get_language_flag",
                                         arg |-> lang_code,
                                         ret |-> get_language_flag(lang_code)])
    /\ UNCHANGED <<f, pc, lines, i, info, heap, current_section, current_track,
                   current_track_type, other>>
    /\ UNCHANGED site

ResolveLanguage == GetLanguageFlag(LanguageStrings)

SpecFlag == Init /\ [][ResolveLanguage]_vars

(***************************************************************************)
(* The files read to exercise the width and the height of the video: a     *)
(* `Video` header and one `Width` or `Height` line, whose value is any     *)
(* string of up to MaxPixelsLen characters of PixelsChars, or one of       *)
(* PixelsExamples.                                                         *)
(***************************************************************************)
MaxPixelsLen == 3

PixelsChars == {"1", " ", "\t"}

PixelsExamples ==
    {"1 920 pixels", "1920 pixels", "1080pixels", "1\t920 pixels", "1 080\tpixels"}

PixelsValues == StringsUpTo(PixelsChars, MaxPixelsLen) \cup PixelsExamples

PixelsFiles ==
    {<<"Video", key \o ":" \o v>> : key \in {"Width", "Height"}, v \in PixelsValues}

ParsePixelsFile == Call(PixelsFiles)

NextPixels ==
    \/ ParsePixelsFile
    \/ VideoHeader
    \/ KeyValueLine
    \/ EndOfInput
    \/ ResolveFlags

SpecPixels == Init /\ [][NextPixels]_vars

(***************************************************************************)
(* The files read to exercise lines the format does not foresee: up to     *)
(* MaxMalformedLines lines, each from MalformedLines.                      *)
(***************************************************************************)
MaxMalformedLines == 3

MalformedLines ==
    {"", "General", "Audio", "Text", "Duration: 1:23", ":", "Nonsense",
     "Channel layout: X Y", "Foo: bar"}

MalformedFiles == SeqsUpTo(MalformedLines, MaxMalformedLines)

ParseMalformedFile == Call(MalformedFiles)

NextMalformed ==
    \/ ParseMalformedFile
    \/ BlankLine
    \/ GeneralHeader
    \/ AudioHeader
    \/ TextHeader
    \/ KeyValueLine
    \/ OtherLine
    \/ EndOfInput
    \/ ResolveFlags

SpecMalformed == Init /\ [][NextMalformed]_vars /\ WF_vars(Step)

(***************************************************************************)
(* The files read to exercise the lines of a track and the order of the    *)
(* loop's tests: up to MaxFieldLines lines, each from FieldLines.          *)
(***************************************************************************)
MaxFieldLines == 3

FieldLines ==
    {"General", "Audio", "Text", "Audio: x", "Video: y", "Text: z",
     " FORMAT : a:B ", "Language: English (EN)", "Language: xx", "Flag: X",
     "Channel(s): 6 channels", "channels: 2", "Default: Yes"}

FieldFiles == SeqsUpTo(FieldLines, MaxFieldLines)

ParseFieldFile == Call(FieldFiles)

NextFields ==
    \/ ParseFieldFile
    \/ BlankLine
    \/ GeneralHeader
    \/ VideoHeader
    \/ AudioHeader
    \/ TextHeader
    \/ KeyValueLine
    \/ EndOfInput
    \/ ResolveFlags

SpecFields == Init /\ [][NextFields]_vars

(***************************************************************************)
(* models.py: the fields the dataclasses declare.  A dataclass built with  *)
(* the items of a dict d as its keywords raises TypeError for a key that   *)
(* is not a field.                                                         *)
(***************************************************************************)
MediaGeneralFields ==
    {"format", "duration", "bitrate", "size", "frame_rate", "complete_name"}

MediaVideoFields ==
    {"format", "width", "height", "aspect_ratio", "frame_rate", "bit_rate",
     "bit_depth"}

AudioTrackFields ==
    {"language", "format", "channels", "bit_rate", "format_settings",
     "sampling_rate", "commercial_name", "title", "flag"}

SubtitleTrackFields == {"language", "flag"}

\* the keys of d that are not keywords the dataclass takes
Unexpected(d, fields) == (DOMAIN d) \ fields

\* MediaInfo._parse_info(parsed_info) raises TypeError
parse_info_raises(parsed_info) ==
    \/ Unexpected(parsed_info.general, MediaGeneralFields) # {}
    \/ Unexpected(parsed_info.video, MediaVideoFields) # {}
    \/ \E k \in 1..Len(parsed_info.audio) :
           Unexpected(parsed_info.audio[k], AudioTrackFields) # {}
    \/ \E k \in 1..Len(parsed_info.subtitles) :
           Unexpected(parsed_info.subtitles[k], SubtitleTrackFields) # {}

\* the parameters of MediaInfo.__init__ and the attributes it sets
MediaInfoParameters ==
    {"media_id", "filename", "original_filename", "uploaded_on", "expiration",
     "password", "raw_output", "parsed_info"}

MediaInfoAttributes ==
    {"media_id", "filename", "original_filename", "uploaded_on", "expiration",
     "password", "raw_output", "general", "video", "audio", "subtitles"}

(***************************************************************************)
(* The application: its clock, the table media_info, the upload folder,    *)
(* the routes and the sweep of expired records.  A time is a number of     *)
(* ticks; a column that may be NULL holds <<>> or <<value>>.               *)
(***************************************************************************)
MaxTime == 3

\* uploads in one behaviour
MaxUploads == 2

NULL == <<>>

\* the clock advances
Tick ==
    /\ now < MaxTime
    /\ now' = now + 1
    /\ UNCHANGED <<f, pc, lines, i, info, heap, current_section, current_track,
                   current_track_type, other, returned>>
    /\ UNCHANGED <<db, disk, sweep, request, response>>

\* Fernet encryption under the application's key, and its inverse
encrypt_password(password) == "enc(" \o password \o ")"

decrypt_password(encrypted_password) ==
    Slice(encrypted_password, 4, Len(encrypted_password) - 1)

\* f"{uuid.uuid4().hex}_mediainfo.txt": a name of its own for each record
FileOf(media_id) == media_id \o "_mediainfo.txt"

\* Database.save_media_info(media) by a caller that wrote the record's file
\* into the upload folder, as index() does (app.py 85-86).  An id that is in
\* the table already violates the primary key: nothing is stored.  Of the
\* columns, the routes and the sweep read filename, expiration and password.
SaveMediaInfo(ids, passwords) ==
    /\ \E media_id \in ids \ DOMAIN db :
       \E expiration \in {NULL} \cup {<<t>> : t \in 1..MaxTime} :
       \E password \in {None} \cup {encrypt_password(p) : p \in passwords} :
           /\ db' = SetKey(db, media_id,
                           [filename |-> FileOf(media_id),
                            expiration |-> expiration,
                            password |-> password])
           /\ disk' = disk \cup {FileOf(media_id)}
    /\ UNCHANGED <<f, pc, lines, i, info, heap, current_section, current_track,
                   current_track_type, other, returned>>
    /\ UNCHANGED <<now, sweep, request, response>>

\* `media.expiration and datetime.now() > media.expiration`, wrong by a tick
ExpiredATickLater(expiration, t) == expiration # NULL /\ t > expiration[1] + 1

\* `media.expiration and datetime.now() > media.expiration`
Expired(expiration, t) == expiration # NULL /\ t > expiration[1]

\* `WHERE expiration < ?`: a comparison with NULL is not true
ExpirationBefore(row, t) == row.expiration # NULL /\ row.expiration[1] < t

\* the answers of a route
Redirect(to, message) ==
    [redirect |-> to, template |-> None, media_info |-> None, file |-> None,
     flash |-> message]

Render(template, media_info, message) ==
    [redirect |-> None, template |-> template, media_info |-> media_info,
     file |-> None, flash |-> message]

SendFile(filename) ==
    [redirect |-> None, template |-> None, media_info |-> None,
     file |-> filename, flash |-> None]

\* the answer, and the request it answers
Answer(route, media_id, method, password, body) ==
    [route |-> route, media_id |-> media_id, method |-> method,
     password |-> password, at |-> now, redirect |-> body.redirect,
     template |-> body.template, media_info |-> body.media_info,
     file |-> body.file, flash |-> body.flash]

\* app.py 121-133 and 161-171: the answer to a request the password keeps out
PasswordGate(media, method, password) ==
    IF media.password # None /\ method = "POST"
          /\ password # decrypt_password(media.password)
        THEN <<TRUE, Render("share.html", None, "Incorrect password. Please try again.")>>
    ELSE IF media.password # None /\ method # "POST"
        THEN <<TRUE, Render("share.html", None, None)>>
    ELSE <<FALSE, Render("share.html", None, None)>>

\* share(media_id)
share(media_id, method, password) ==
    IF media_id \notin DOMAIN db THEN Redirect("index", "Invalid or expired link.")
    ELSE IF Expired(db[media_id].expiration, now)
        THEN Redirect("index", "This link has expired.")
    ELSE IF PasswordGate(db[media_id], method, password)[1]
        THEN PasswordGate(db[media_id], method, password)[2]
    ELSE Render("share.html", media_id, None)

\* preview(media_id)
preview(media_id) ==
    IF media_id \notin DOMAIN db THEN Redirect("index", "Invalid or expired link.")
    ELSE IF Expired(db[media_id].expiration, now)
        THEN Redirect("index", "This link has expired.")
    ELSE Render("preview.html", media_id, None)

\* download(media_id)
download(media_id, method, password) ==
    IF media_id \notin DOMAIN db THEN Redirect("index", "Invalid or expired link.")
    ELSE IF Expired(db[media_id].expiration, now)
        THEN Redirect("index", "This link has expired.")
    ELSE IF PasswordGate(db[media_id], method, password)[1]
        THEN PasswordGate(db[media_id], method, password)[2]
    ELSE IF db[media_id].filename \notin disk
        THEN Redirect("index", "File not found.")
    ELSE SendFile(db[media_id].filename)

\* the requests a client makes: a GET has no form, a POST has a form with
\* or without a password
Forms(passwords) ==
    {<<"GET", None>>} \cup {<<"POST", p>> : p \in passwords \cup {None}}

\* a request to /share/<media_id> is handled
Share(ids, passwords) ==
    /\ \E media_id \in ids, form \in Forms(passwords) :
           response' = Answer("share", media_id, form[1], form[2],
                              share(media_id, form[1], form[2]))
    /\ UNCHANGED <<f, pc, lines, i, info, heap, current_section, current_track,
                   current_track_type, other, returned>>
    /\ UNCHANGED <<now, db, disk, sweep, request>>

\* a request to /preview/<media_id> is handled: the route takes GET only
Preview(ids) ==
    /\ \E media_id \in ids :
           response' = Answer("preview", media_id, "GET", None, preview(media_id))
    /\ UNCHANGED <<f, pc, lines, i, info, heap, current_section, current_track,
                   current_track_type, other, returned>>
    /\ UNCHANGED <<now, db, disk, sweep, request>>

\* a request to /download/<media_id> is handled
Download(ids, passwords) ==
    /\ \E media_id \in ids, form \in Forms(passwords) :
           response' = Answer("download", media_id, form[1], form[2],
                              download(media_id, form[1], form[2]))
    /\ UNCHANGED <<f, pc, lines, i, info, heap, current_section, current_track,
                   current_track_type, other, returned>>
    /\ UNCHANGED <<now, db, disk, sweep, request>>

(***************************************************************************)
(* delete_expired_media, statement by statement: each query reads the      *)
(* clock when it is made, and other connections may write between them     *)
(* (the SELECT opens no transaction).                                      *)
(***************************************************************************)
\* database.py 140-144: the files of the rows expired now
SweepSelect(t) ==
    /\ sweep[t].pc = "idle"
    /\ sweep' = [sweep EXCEPT ![t] =
                    [pc |-> "remove",
                     expired_files |->
                         {db[id].filename :
                              id \in {x \in DOMAIN db : ExpirationBefore(db[x], now)}}]]
    /\ UNCHANGED <<f, pc, lines, i, info, heap, current_section, current_track,
                   current_track_type, other, returned>>
    /\ UNCHANGED <<now, db, disk, request, response>>

\* database.py 147-153: each selected file that exists is removed, unless
\* os.remove raises OSError, which is printed and passed over
SweepRemove(t) ==
    /\ sweep[t].pc = "remove"
    /\ \E failed \in SUBSET (sweep[t].expired_files \cap disk) :
           disk' = disk \ (sweep[t].expired_files \ failed)
    /\ sweep' = [sweep EXCEPT ![t].pc = "delete"]
    /\ UNCHANGED <<f, pc, lines, i, info, heap, current_section, current_track,
                   current_track_type, other, returned>>
    /\ UNCHANGED <<now, db, request, response>>

\* database.py 156-162: the rows expired now are deleted
SweepDelete(t) ==
    /\ sweep[t].pc = "delete"
    /\ db' = [id \in {x \in DOMAIN db : ~ExpirationBefore(db[x], now)} |-> db[id]]
    /\ sweep' = [sweep EXCEPT ![t].pc = "done"]
    /\ UNCHANGED <<f, pc, lines, i, info, heap, current_section, current_track,
                   current_track_type, other, returned>>
    /\ UNCHANGED <<now, disk, request, response>>

\* app.py 211-218: cleanup_task sleeps and sweeps again
SweepAgain ==
    /\ sweep["cleanup_task"].pc = "done"
    /\ sweep' = [sweep EXCEPT !["cleanup_task"] = NotSweeping]
    /\ UNCHANGED <<f, pc, lines, i, info, heap, current_section, current_track,
                   current_track_type, other, returned>>
    /\ UNCHANGED <<now, db, disk, request, response>>

(***************************************************************************)
(* index(): the upload.  The request writes the text to a file of its own  *)
(* and has parse_file read it; when parse_file is over it builds the       *)
(* record, saves it and answers.                                           *)
(***************************************************************************)
\* timedelta(hours=24), in ticks
Day == 1

\* the keywords index() calls MediaInfoModel with
IndexKeywords ==
    {"id", "filename", "original_filename", "uploaded_on", "expiration",
     "raw_output", "parsed_info"}

\* app.py 75-88, as far as the call of parse_file and its reading the file
Index(texts) ==
    /\ pc = "idle"
    /\ request = NoRequest
    /\ \E method \in {"GET", "POST"}, mediainfo_text \in texts :
           IF method = "GET"
           THEN /\ response' = Answer("index", None, "GET", None,
                                      Render("index.html", None, None))
                /\ UNCHANGED <<f, pc, lines, i, info, current_section,
                               current_track, current_track_type, disk, request>>
           ELSE IF mediainfo_text = ""
           THEN /\ response' = Answer("index", None, "POST", None,
                                      Redirect("index",
                                               "Please provide MediaInfo output."))
                /\ UNCHANGED <<f, pc, lines, i, info, current_section,
                               current_track, current_track_type, disk, request>>
           ELSE /\ Cardinality(disk) < MaxUploads
                /\ \E filename \in {FileOf("u" \o str(Cardinality(disk) + 1))} :
                       /\ request' = [mediainfo_text |-> mediainfo_text,
                                      filename |-> filename]
                       /\ disk' = disk \cup {filename}
                /\ \E file \in {splitAll(mediainfo_text, "\n")} :
                       /\ f' = file
                       /\ lines' = ReadContent(file)
                /\ pc' = "scan"
                /\ i' = 0
                /\ info' = [general |-> EmptyDict, video |-> EmptyDict,
                            audio |-> <<>>, subtitles |-> <<>>]
                /\ current_section' = None
                /\ current_track' = NoTrack
                /\ current_track_type' = None
                /\ UNCHANGED response
    /\ UNCHANGED <<heap, other, returned, now, db, sweep>>

\* app.py 89-106.  An exception (parse_file's, the TypeError of a keyword
\* MediaInfo.__init__ does not take or of a key a dataclass does not take,
\* the AttributeError of an attribute the record does not have) ends in the
\* except clause; the row is inserted before `media.id` is read.
IndexRespond ==
    /\ request # NoRequest
    /\ pc \in {"done", "raised"}
    /\ pc' = "idle"
    /\ request' = NoRequest
    /\ \E media_id \in {"m" \o str(Cardinality(DOMAIN db) + 1)} :
           IF \/ pc = "raised"
              \/ ~(IndexKeywords \subseteq MediaInfoParameters)
              \/ parse_info_raises(Record(info, heap))
           THEN /\ response' = Answer("index", None, "POST", None,
                                      Redirect("index", "Error processing file"))
                /\ db' = db
           ELSE /\ db' = SetKey(db, media_id,
                                [filename |-> request.filename,
                                 expiration |-> <<now + Day>>,
                                 password |-> None])
                /\ response' =
                       IF "id" \in MediaInfoAttributes
                       THEN Answer("index", media_id, "POST", None,
                                   Redirect("preview", None))
                       ELSE Answer("index", None, "POST", None,
                                   Redirect("index", "Error processing file"))
    /\ UNCHANGED <<f, lines, i, info, heap, current_section, current_track,
                   current_track_type, other, returned>>
    /\ UNCHANGED <<now, disk, sweep>>

(***************************************************************************)
(* The uploads made: a GET, an empty form, or a text of up to              *)
(* MaxUploadLines lines, each from UploadLines.                            *)
(***************************************************************************)
MaxUploadLines == 2

UploadLines == {"General", "Audio", "Format: AC-3", "Default: Yes", "Movie name: X"}

UploadTexts ==
    {""} \cup {join("\n", file) :
                  file \in SeqsUpTo(UploadLines, MaxUploadLines) \ {<<>>}}

Upload == Index(UploadTexts)

NextUpload ==
    \/ Upload
    \/ GeneralHeader
    \/ AudioHeader
    \/ KeyValueLine
    \/ EndOfInput
    \/ ResolveFlags
    \/ IndexRespond

SpecUpload == Init /\ [][NextUpload]_vars

(***************************************************************************)
(* The requests made for one record while the clock advances and           *)
(* cleanup_task sweeps.                                                    *)
(***************************************************************************)
RouteIds == {"a"}

StoredPasswords == {"pw"}

FormPasswords == {"pw", "no"}

StoreRecord == SaveMediaInfo(RouteIds, StoredPasswords)

ShareRequest == Share(RouteIds, FormPasswords)

PreviewRequest == Preview(RouteIds)

DownloadRequest == Download(RouteIds, FormPasswords)

CleanupSelect == SweepSelect("cleanup_task")

CleanupRemove == SweepRemove("cleanup_task")

CleanupDelete == SweepDelete("cleanup_task")

NextRoutes ==
    \/ StoreRecord
    \/ Tick
    \/ ShareRequest
    \/ PreviewRequest
    \/ DownloadRequest
    \/ CleanupSelect
    \/ CleanupRemove
    \/ CleanupDelete
    \/ SweepAgain

SpecRoutes == Init /\ [][NextRoutes]_vars

(***************************************************************************)
(* The sweep at start-up and the sweep of cleanup_task, side by side,      *)
(* over two records, while the clock advances.                             *)
(***************************************************************************)
SweepIds == {"a", "b"}

StoreSweptRecord == SaveMediaInfo(SweepIds, {})

RunSelect == SweepSelect("run")

RunRemove == SweepRemove("run")

RunDelete == SweepDelete("run")

NextSweep ==
    \/ StoreSweptRecord
    \/ Tick
    \/ RunSelect
    \/ RunRemove
    \/ RunDelete
    \/ CleanupSelect
    \/ CleanupRemove
    \/ CleanupDelete
    \/ SweepAgain

SpecSweep == Init /\ [][NextSweep]_vars

(***************************************************************************)
(* What the claims speak of.                                               *)
(***************************************************************************)
\* the numbers of the lines of the file whose trimmed text starts with prefix
LinesStarting(prefix) == {k \in 1..Len(f) : startswith(strip(f[k]), prefix)}

\* the trimmed k-th line the loop sees
LineAt(k) == strip(lines[k])

IsTrackHeader(line) == startswith(line, "Audio") \/ startswith(line, "Text")

IsSectionHeader(line) ==
    line = "General" \/ startswith(line, "Video") \/ line = "Menu"

IsHeader(line) == IsTrackHeader(line) \/ IsSectionHeader(line)

\* how often x occurs in list
Occurrences(list, x) == Cardinality({k \in 1..Len(list) : list[k] = x})

\* the step that consumes one line of the loop
ConsumesLine == pc = "scan" /\ i < Len(lines) /\ i' = i + 1

(***************************************************************************)
(* C1: when parse_file returns, info["audio"] holds as many records as the *)
(* file has lines whose trimmed text starts with `Audio`.                  *)
(* Violated: an `Audio` track that a `General`, `Video...` or `Menu`       *)
(* header follows is dropped and never appended.                           *)
(***************************************************************************)
C1_AudioCountEqualsAudioHeaders ==
    pc = "done" => Len(info.audio) = Cardinality(LinesStarting("Audio"))

(***************************************************************************)
(* C2: when parse_file returns, info["subtitles"] holds as many records as *)
(* the file has lines whose trimmed text starts with `Text`.               *)
(* Violated: a `Text` track that an `Audio`, `Video...` or `General`       *)
(* header follows is dropped and never appended.                           *)
(***************************************************************************)
C2_SubtitleCountEqualsTextHeaders ==
    pc = "done" => Len(info.subtitles) = Cardinality(LinesStarting("Text"))

(***************************************************************************)
(* C3: a track header directly followed by another track header of either  *)
(* kind yields exactly one record, with all fields at their defaults, in   *)
(* the list of the first header's kind.                                    *)
(* Violated: a `Text` header directly followed by an `Audio` header.       *)
(***************************************************************************)
C3_EmptyTrackIsKept ==
    pc = "done" =>
        \A k \in 1..(Len(lines) - 1) :
            IsTrackHeader(LineAt(k)) /\ IsTrackHeader(LineAt(k + 1)) =>
                /\ k \in DOMAIN heap
                /\ IF startswith(LineAt(k), "Audio")
                   THEN Occurrences(info.audio, k) = 1 /\ heap[k] = AudioTrack
                   ELSE Occurrences(info.subtitles, k) = 1 /\ heap[k] = SubtitleTrack

C5_SectionHeaderAppendsNothing ==
    [][ConsumesLine /\ IsSectionHeader(Line) =>
           info'.audio = info.audio /\ info'.subtitles = info.subtitles]_vars

(***************************************************************************)
(* C5, amended: a `General` or `Video...` header appends nothing to either *)
(* list; a `Menu` header appends nothing to the audio list, and to the     *)
(* subtitles list the open track when that is a subtitle track and nothing *)
(* otherwise.  Each of the three sets the active section, clears the       *)
(* current-track handle and changes no record.                             *)
(***************************************************************************)
C5_SectionHeaderEffect ==
    [][ConsumesLine /\ IsSectionHeader(Line) =>
           /\ info'.audio = info.audio
           /\ info'.subtitles =
                  IF Line = "Menu" /\ current_track # NoTrack
                                   /\ current_track_type = "text"
                  THEN info.subtitles \o <<current_track>>
                  ELSE info.subtitles
           /\ info'.general = info.general
           /\ info'.video = info.video
           /\ heap' = heap
           /\ current_section' = (IF Line = "General" THEN "general"
                                  ELSE IF Line = "Menu" THEN "menu" ELSE "video")
           /\ current_track' = NoTrack]_vars

\* a `Menu` header has just closed an open subtitle track
C5_Witness ==
    /\ pc = "scan"
    /\ i >= 2
    /\ LineAt(i) = "Menu"
    /\ current_section = "menu"
    /\ current_track = NoTrack
    /\ Len(info.subtitles) = 1

(***************************************************************************)
(* C6: in the returned record the audio records stand in the order of the  *)
(* `Audio` headers that created them and the subtitle records in the order *)
(* of their `Text` headers, and each record holds exactly what the         *)
(* key/value lines between its own header and the next header set (with    *)
(* the flag its language gives).                                           *)
(***************************************************************************)
\* the number of the first header line after line k; Len(lines) + 1 if none
NextHeaderAfter(k) ==
    LET later == {m \in (k + 1)..Len(lines) : IsHeader(LineAt(m))}
    IN  IF later = {} THEN Len(lines) + 1 ELSE MinOf(later)

\* the key/value lines among lines a..b applied in turn to the track dict d
RECURSIVE FieldsOfLines(_, _, _, _)
FieldsOfLines(a, b, type, d) ==
    IF a > b THEN d
    ELSE LET kv == split1(LineAt(a), ":")
             k  == lower(strip(kv[1]))
             v  == strip(kv[2])
             d1 == IF ~contains(LineAt(a), ":") THEN d
                   ELSE IF type = "audio" THEN AudioKeyValue(k, v, d)
                   ELSE TextKeyValue(k, v, d)
         IN  FieldsOfLines(a + 1, b, type, d1)

TrackOfHeader(k, type) ==
    WithFlag(FieldsOfLines(k + 1, NextHeaderAfter(k) - 1, type,
                           IF type = "audio" THEN AudioTrack ELSE SubtitleTrack))

InHeaderOrder(list, prefix, type) ==
    /\ \A a, b \in 1..Len(list) : a < b => list[a] < list[b]
    /\ \A a \in 1..Len(list) :
           /\ list[a] \in 1..Len(lines)
           /\ startswith(LineAt(list[a]), prefix)
           /\ heap[list[a]] = TrackOfHeader(list[a], type)

MappedFields(d) == [k \in (DOMAIN d) \ {"flag"} |-> d[k]]

IsKeyValue(line) == contains(line, ":") /\ ~IsHeader(line)

C7_AppendedTrackIsSealed ==
    [][/\ \A t \in ListedTracks(info) :
              /\ t \in DOMAIN heap'
              /\ MappedFields(heap'[t]) = MappedFields(heap[t])
              /\ pc = "scan" => heap'[t] = heap[t]
       /\ ConsumesLine /\ IsKeyValue(Line) =>
              /\ current_track \notin ListedTracks(info)
              /\ \A t \in (DOMAIN heap) \ {current_track} : heap'[t] = heap[t]]_vars

\* a key/value line has just set a field of the open track while an earlier
\* track is in the audio list
C7_Witness ==
    /\ pc = "scan"
    /\ i >= 3
    /\ IsKeyValue(LineAt(i))
    /\ Len(info.audio) >= 1
    /\ current_track # NoTrack
    /\ heap[current_track].format = "AC-3"
    /\ heap[info.audio[1]].format = ""

(***************************************************************************)
(* C8: a key/value line whose nearest preceding header is `Menu` or an     *)
(* unrecognized header (a line without `:` that is none of the five        *)
(* headers, such as `Other #1`) changes no record.                         *)
(* Violated: an unrecognized header leaves the section as it was, so the   *)
(* lines after it are still extracted into the section before it.          *)
(***************************************************************************)
\* line k is a header in the claim's sense: a recognized header, or a line
\* without `:`
IsAnyHeader(line) == IsHeader(line) \/ ~contains(line, ":")

AfterIgnoredHeader(k) ==
    LET before == {m \in 1..(k - 1) : IsAnyHeader(LineAt(m))}
    IN  /\ before # {}
        /\ \/ LineAt(MaxOf(before)) = "Menu"
           \/ ~IsHeader(LineAt(MaxOf(before)))

C8_NothingExtractedAfterIgnoredHeader ==
    [][ConsumesLine /\ IsKeyValue(Line) /\ AfterIgnoredHeader(i + 1) =>
           info' = info /\ heap' = heap]_vars

(***************************************************************************)
(* C9: a key/value line processed before any section was entered changes   *)
(* nothing of the output; in the Audio and Text sections a key/value line  *)
(* changes only the open track, which exists and is in neither list; and   *)
(* after a key/value line the scan goes on.                                *)
(***************************************************************************)
C9_KeyValueOutsideSection ==
    [][ConsumesLine /\ IsKeyValue(Line) =>
           /\ pc' = "scan"
           /\ current_section = None => info' = info /\ heap' = heap
           /\ current_section \in {"audio", "text"} =>
                  /\ info' = info
                  /\ current_track \in DOMAIN heap
                  /\ current_track \notin ListedTracks(info)
                  /\ DOMAIN heap' = DOMAIN heap
                  /\ \A t \in (DOMAIN heap) \ {current_track} : heap'[t] = heap[t]]_vars

\* a key/value line has been processed with no section entered
C9_Witness ==
    /\ pc = "scan"
    /\ i >= 1
    /\ IsKeyValue(LineAt(i))
    /\ current_section = None

(***************************************************************************)
(* C10: the channel label stored for a `channel layout` value is main.lfe  *)
(* when no token is in the height table and main.lfe.height otherwise, the *)
(* three numbers being how many of the value's whitespace-separated tokens *)
(* are in the main, low-frequency and height tables; the tables share no   *)
(* token.                                                                  *)
(***************************************************************************)
\* the text after `Channel layout:` in the file's second line
LayoutValue == Slice(f[2], Len("Channel layout:"), Len(f[2]))

TokensIn(tokens, table) == Cardinality({k \in 1..Len(tokens) : tokens[k] \in table})

LabelOfTokens(tokens) ==
    LET main   == TokensIn(tokens, main_channel_names)
        lfe    == TokensIn(tokens, lfe_channel_names)
        height == TokensIn(tokens, height_channel_names)
    IN  IF height = 0 THEN str(main) \o "." \o str(lfe)
        ELSE str(main) \o "." \o str(lfe) \o "." \o str(height)

C10_ChannelLabel ==
    /\ main_channel_names \cap lfe_channel_names = {}
    /\ main_channel_names \cap height_channel_names = {}
    /\ lfe_channel_names \cap height_channel_names = {}
    /\ i = 2 =>
           /\ heap[1].channels = LabelOfTokens(split(LayoutValue))
           /\ LayoutValue = "L R C LFE Ls Rs" => heap[1].channels = "5.1"
           /\ LayoutValue = "L R C LFE Ls Rs Tfl Tfr" => heap[1].channels = "5.1.2"
           /\ LayoutValue = "L R" => heap[1].channels = "2.0"
           /\ LayoutValue \in {"", "X Y"} => heap[1].channels = "0.0"

\* a layout with main, low-frequency and height tokens has been labelled
C10_Witness ==
    /\ pc = "done"
    /\ LayoutValue = "L R C LFE Ls Rs Tfl Tfr"
    /\ heap[info.audio[1]].channels = "5.1.2"

(***************************************************************************)
(* C11: get_language_flag returns the glyph of this code, and the empty    *)
(* string when the table has no such code: for a language with both `(`    *)
(* and `)`, the text between the first `(` and the first `)` after that    *)
(* `(`; otherwise the whole language; trimmed and in upper case either     *)
(* way.  A missing or empty language gives the empty string.               *)
(* Violated: the code slices up to the first `)` of the whole string, so   *)
(* a `)` before the first `(` makes the code that is looked up empty.      *)
(***************************************************************************)
\* the 1-based places of `)` after the first `(` of t
ClosesAfterOpen(t) ==
    {k \in (find(t, "(") + 2)..Len(t) : Char(t, k) = ")"}

\* the code the claim describes, for a language where it describes one
ClaimedCode(s) ==
    LET t == upper(strip(s))
    IN  IF contains(t, "(") /\ contains(t, ")")
        THEN strip(Slice(t, find(t, "(") + 1, MinOf(ClosesAfterOpen(t)) - 1))
        ELSE t

GlyphOf(code) == IF code \in DOMAIN language_flags THEN language_flags[code] ELSE ""

\* the calls of get_language_flag that have returned
FlagCalls == {k \in 1..Len(returned) : returned[k].method = "get_language_flag"}

C11_FlagOfClaimedCode ==
    \A k \in FlagCalls :
        LET s == returned[k].arg
            t == upper(strip(s))
        IN  IF s = None \/ s = "" THEN returned[k].ret = ""
            ELSE (contains(t, "(") /\ contains(t, ")") => ClosesAfterOpen(t) # {})
                     => returned[k].ret = GlyphOf(ClaimedCode(s))

(***************************************************************************)
(* C12: for every language string, get_language_flag applied to the code   *)
(* it extracts from the string returns what it returns for the string.     *)
(***************************************************************************)
C12_ResolvingTheCodeAgain ==
    \A k \in FlagCalls :
        returned[k].arg # None =>
            get_language_flag(LanguageCode(returned[k].arg)) = returned[k].ret

\* a parenthesized language has been resolved to a glyph
C12_Witness ==
    /\ returned # <<>>
    /\ returned[1].method = "get_language_flag"
    /\ returned[1].arg = "English (EN)"
    /\ LanguageCode(returned[1].arg) = "EN"
    /\ returned[1].ret = "|us|"

(***************************************************************************)
(* C13: the width and the height of the video are stored as the value of   *)
(* their line with every `pixels` and every whitespace character taken     *)
(* out, so `1 920 pixels` is stored as `1920`.                             *)
(* Violated: only the space character is taken out of the middle of the    *)
(* value, so a tab between the digits stays.                               *)
(***************************************************************************)
\* the text after the `:` of the file's second line, and the field it names
PixelsValue == Slice(f[2], find(f[2], ":") + 1, Len(f[2]))

PixelsField == lower(Slice(f[2], 0, find(f[2], ":")))

\* s without its whitespace characters, from the k-th character on
RECURSIVE WithoutWhitespace(_, _)
WithoutWhitespace(s, k) ==
    IF k > Len(s) THEN ""
    ELSE (IF Char(s, k) \in Whitespace THEN "" ELSE Char(s, k))
             \o WithoutWhitespace(s, k + 1)

C13_PixelsAndWhitespaceRemoved ==
    /\ (i = 2 /\ PixelsValue = "1 920 pixels") => info.video[PixelsField] = "1920"
    /\ i = 2 =>
           info.video[PixelsField] =
               WithoutWhitespace(replace(PixelsValue, "pixels", ""), 1)

(***************************************************************************)
(* C14: once the file has been read, no step of parse_file raises: from    *)
(* the scan the only ways on are the scan, the flushes at its end and the  *)
(* return, which is reached whatever the lines are, and what is returned   *)
(* is a record with its four parts.                                        *)
(***************************************************************************)
C14_NoLineAbortsTheParse ==
    /\ [][pc = "scan" => pc' \in {"scan", "flags"}]_vars
    /\ [][pc = "flags" => pc' = "done"]_vars
    /\ (pc = "scan") ~> (pc = "done")
    /\ [](pc = "done" =>
              /\ DOMAIN info = {"general", "video", "audio", "subtitles"}
              /\ i = Len(lines)
              /\ ListedTracks(info) \subseteq DOMAIN heap)

\* a parse of a line with two colons, unclassified channel tokens and an
\* unknown key has returned
C14_Witness ==
    /\ pc = "done"
    /\ f = <<"Duration: 1:23", "Audio", "Channel layout: X Y">>
    /\ Len(info.audio) = 1
    /\ heap[info.audio[1]].channels = "0.0"

(***************************************************************************)
(* C15: a file with no line that is not blank, and a file none of whose    *)
(* lines is a recognized header, is parsed to the end without an error,    *)
(* and the record returned is the one parse_file starts from: nothing in   *)
(* the general and the video record, no audio track and no subtitle.       *)
(***************************************************************************)
\* no line of the file is one of the five headers
NoHeaderInFile == \A k \in 1..Len(f) : ~IsHeader(strip(f[k]))

NothingExtracted ==
    info = [general |-> EmptyDict, video |-> EmptyDict, audio |-> <<>>,
            subtitles |-> <<>>]

C15_NothingFromUnrecognizedInput ==
    /\ [](NoHeaderInFile => pc # "raised" /\ NothingExtracted)
    /\ (pc = "scan" /\ NoHeaderInFile) ~> (pc = "done" /\ NothingExtracted)

\* a parse of blank and unrecognized lines only has returned
C15_Witness ==
    /\ pc = "done"
    /\ f = <<"", "Nonsense", "Duration: 1:23">>
    /\ NothingExtracted
    /\ Record(info, heap).audio = <<>>

(***************************************************************************)
(* C16: in the record parse_file returns, the general record has each of   *)
(* the seven fields format, duration, bitrate, size, frame_rate,           *)
(* complete_name and movie_name, holding the value its line gave or the    *)
(* empty string when no line gave one.                                     *)
(* Violated: the general record is a dict that starts empty and gets a key *)
(* only when a line sets it, so a field no line supplied is missing.       *)
(***************************************************************************)
GeneralFields ==
    {"format", "duration", "bitrate", "size", "frame_rate", "complete_name",
     "movie_name"}

C16_GeneralFieldsPresent ==
    pc = "done" =>
        /\ GeneralFields \subseteq DOMAIN info.general
        /\ \A k \in GeneralFields :
               info.general[k] # "" =>
                   \E n \in 1..Len(lines) : contains(LineAt(n), info.general[k])

(***************************************************************************)
(* C17: calls of parse_file on one parser that were given the same lines   *)
(* return equal records, whichever calls came before them: the first call  *)
(* on the new parser, a call after a call on the same lines and a call     *)
(* after a call on other lines.                                            *)
(***************************************************************************)
\* the calls of parse_file that have returned
ParseCalls == {k \in 1..Len(returned) : returned[k].method = "parse_file"}

C17_SameLinesSameRecord ==
    /\ \A a, b \in ParseCalls :
           returned[a].arg = returned[b].arg => returned[a].ret = returned[b].ret
    /\ pc = "done" =>
           \A a \in ParseCalls :
               returned[a].arg = f => returned[a].ret = Record(info, heap)

\* the third call on the parser is about to return what the first returned,
\* after a second call on other lines
C17_Witness ==
    /\ pc = "done"
    /\ Len(returned) = 2
    /\ returned[1].arg = <<"Audio", "Format: AC-3">>
    /\ returned[2].arg = <<"Audio">>
    /\ f = returned[1].arg
    /\ Record(info, heap) = returned[1].ret
    /\ returned[1].ret.audio[1].format = "AC-3"
    /\ returned[2].ret.audio[1].format = ""

(***************************************************************************)
(* C18: with two calls of parse_file on one parser interleaved at any      *)
(* step, each call returns what a call on the same lines returns: the      *)
(* record of a finished call, in either thread, equals the record every    *)
(* returned call on its lines gave, two finished calls on the same lines   *)
(* hold equal records, and a step of the running call leaves the frame of  *)
(* the suspended call as it is.                                            *)
(***************************************************************************)
C18_InterleavedCallsAreIndependent ==
    /\ [](pc = "done" =>
              \A a \in ParseCalls :
                  returned[a].arg = f => returned[a].ret = Record(info, heap))
    /\ [](other.pc = "done" =>
              \A a \in ParseCalls :
                  returned[a].arg = other.f =>
                      returned[a].ret = Record(other.info, other.heap))
    /\ [](pc = "done" /\ other.pc = "done" /\ f = other.f =>
              Record(info, heap) = Record(other.info, other.heap))
    /\ [](\A a, b \in ParseCalls :
              returned[a].arg = returned[b].arg => returned[a].ret = returned[b].ret)
    /\ [][other' # other => other' = Frame]_vars

\* a call has finished while a call on other lines is suspended in the middle
\* of its scan, and holds the record an earlier call on its lines returned
C18_Witness ==
    /\ pc = "done"
    /\ f = <<"Audio", "Format: AC-3">>
    /\ other.pc = "scan"
    /\ other.f = <<"Format: AC-3", "Audio">>
    /\ other.i = 1
    /\ Len(returned) = 1
    /\ returned[1].arg = f
    /\ returned[1].ret = Record(info, heap)
    /\ returned[1].ret.audio[1].format = "AC-3"

(***************************************************************************)
(* C19: a key/value line leaves both output lists as they are and changes  *)
(* no record but that of the active section: the general record in         *)
(* General, the video record in Video, the open track in Audio and Text;   *)
(* a line whose key the active section does not list changes nothing.      *)
(***************************************************************************)
\* the keys each section's branch of _parse_key_value tests for
AliasTable(section) ==
    IF section = "general"
        THEN {"format", "duration", "overall bit rate", "bit rate", "file size",
              "size", "frame rate", "complete name", "movie name"}
    ELSE IF section = "video"
        THEN {"format", "width", "height", "display aspect ratio", "aspect ratio",
              "frame rate", "frame rate mode", "bit rate", "nominal bit rate",
              "bit depth", "bit depth (bits)", "hdr format", "color primaries",
              "transfer characteristics", "title", "stream size"}
    ELSE IF section = "audio"
        THEN {"language", "format", "channel layout", "bit rate",
              "nominal bit rate", "format settings", "sampling rate",
              "sampling frequency", "commercial name", "title", "stream size",
              "default"}
    ELSE IF section = "text"
        THEN {"language", "title", "default", "forced"}
    ELSE {}

\* the key of a key/value line, as _parse_key_value compares it
KeyOf(line) == lower(strip(Slice(line, 0, find(line, ":"))))

C19_KeyValueFrame ==
    [][ConsumesLine /\ IsKeyValue(Line) =>
           /\ info'.audio = info.audio
           /\ info'.subtitles = info.subtitles
           /\ current_section # "general" => info'.general = info.general
           /\ current_section # "video" => info'.video = info.video
           /\ DOMAIN heap' = DOMAIN heap
           /\ \A t \in DOMAIN heap :
                  (current_section \notin {"audio", "text"} \/ t # current_track)
                      => heap'[t] = heap[t]
           /\ KeyOf(Line) \notin AliasTable(current_section) =>
                  info' = info /\ heap' = heap]_vars

\* a `Format` line has been processed in the Text section, after an audio
\* track took its own `Format` line, and the subtitle track is as created
C19_Witness ==
    /\ pc = "scan"
    /\ i = 4
    /\ current_section = "text"
    /\ LineAt(1) = "Audio #1"
    /\ LineAt(2) = "Format: AC-3"
    /\ LineAt(3) = "Text #1"
    /\ LineAt(i) = "Format: AC-3"
    /\ current_track = 3
    /\ heap[current_track] = SubtitleTrack
    /\ heap[1].format = "AC-3"

(***************************************************************************)
(* C20: from the call to the return, a track is open exactly when the      *)
(* active section is Audio or Text, and the open track is of the section's *)
(* kind: its type is the section, and it is the object an `Audio` header   *)
(* created in Audio and a `Text` header created in Text.  Before the first *)
(* line the section is None and no track is open.                          *)
(***************************************************************************)
C20_OpenTrackMatchesSection ==
    pc \in {"scan", "flags", "done"} =>
        /\ i = 0 => current_section = None /\ current_track = NoTrack
        /\ current_track # NoTrack <=> current_section \in {"audio", "text"}
        /\ current_track = NoTrack => current_track_type = None
        /\ current_track # NoTrack =>
               /\ current_track_type = current_section
               /\ current_track \in DOMAIN heap
               /\ current_track \in 1..i
               /\ startswith(LineAt(current_track),
                             IF current_section = "audio" THEN "Audio" ELSE "Text")

\* the scan is in the Text section with a subtitle track open, after an
\* audio track was open in the Audio section
C20_Witness ==
    /\ pc = "scan"
    /\ i = 2
    /\ LineAt(1) = "Audio #1"
    /\ LineAt(2) = "Text #1"
    /\ current_section = "text"
    /\ current_track = 2
    /\ current_track_type = "text"
    /\ heap[2] = SubtitleTrack
    /\ info.audio = <<1>>

(***************************************************************************)
(* C21: in the returned record the flag of every audio and subtitle track  *)
(* is get_language_flag of the language the track ends with, and the empty *)
(* string for a track without a language; until the post-pass every flag   *)
(* is the empty string, whatever keys the lines have.                      *)
(***************************************************************************)
C21_FlagFollowsLanguage ==
    /\ pc \in {"scan", "flags"} => \A t \in DOMAIN heap : heap[t].flag = ""
    /\ pc = "done" =>
           \A list \in {info.audio, info.subtitles} :
               \A k \in 1..Len(list) :
                   /\ heap[list[k]].flag = get_language_flag(heap[list[k]].language)
                   /\ heap[list[k]].language = "" => heap[list[k]].flag = ""

\* a subtitle track whose language was given twice and which has a `Flag`
\* line carries the flag of its last language
C21_Witness ==
    /\ pc = "done"
    /\ f = <<"Text", "Language: xx", "Language: English (EN)">>
    /\ Len(info.subtitles) = 1
    /\ heap[info.subtitles[1]].language = "English (EN)"
    /\ heap[info.subtitles[1]].flag = "|us|"

(***************************************************************************)
(* C22: while an audio track is open, a key/value line whose key is        *)
(* `channel(s)` or `channels` sets the channel label of that track to the  *)
(* value of the line as it is written.                                     *)
(* Violated: the audio branch has no such key; the line changes nothing.   *)
(***************************************************************************)
ValueOf(line) == strip(Slice(line, find(line, ":") + 1, Len(line)))

C22_ChannelsLineSetsLabel ==
    [][/\ ConsumesLine
       /\ IsKeyValue(Line)
       /\ KeyOf(Line) \in {"channel(s)", "channels"}
       /\ current_section = "audio"
       /\ current_track # NoTrack
       => heap'[current_track].channels = ValueOf(Line)]_vars

(***************************************************************************)
(* C23: a key/value line is split at its first colon and both sides are    *)
(* trimmed: whatever the case of its letters, a `format` key stores, in    *)
(* the section the line is in, all that follows the first colon, trimmed,  *)
(* further colons included and the case of its letters kept; likewise a    *)
(* `language` key in an open track.                                        *)
(***************************************************************************)
C23_SplitAtFirstColon ==
    [][ConsumesLine /\ IsKeyValue(Line) =>
           /\ KeyOf(Line) = "format" /\ current_section \in {"general", "video"}
                  => info'[current_section].format = ValueOf(Line)
           /\ KeyOf(Line) = "format" /\ current_section = "audio"
                  /\ current_track # NoTrack
                  => heap'[current_track].format = ValueOf(Line)
           /\ KeyOf(Line) = "language" /\ current_section \in {"audio", "text"}
                  /\ current_track # NoTrack
                  => heap'[current_track].language = ValueOf(Line)]_vars

\* the line ` FORMAT : a:B ` has been read in the General section
C23_Witness ==
    /\ pc = "scan"
    /\ f = <<"General", " FORMAT : a:B ">>
    /\ i = 2
    /\ DOMAIN info.general = {"format"}
    /\ info.general.format = "a:B"

(***************************************************************************)
(* C24: the tests of a line are made in the order General, Video, Audio,   *)
(* Text, Menu, key/value and the first that passes decides: a line whose   *)
(* trimmed text starts with `Video`, `Audio` or `Text` has the effect of a *)
(* header, a colon in it or not.  `Audio` and `Text` open a new track of   *)
(* their kind, `Video` closes the open track, and none of them changes a   *)
(* field of the general or video record or of a track that exists.         *)
(***************************************************************************)
C24_HeaderBeforeKeyValue ==
    [][ConsumesLine =>
           /\ startswith(Line, "Video") =>
                  /\ current_section' = "video"
                  /\ current_track' = NoTrack
                  /\ info' = info /\ heap' = heap
           /\ startswith(Line, "Audio") \/ startswith(Line, "Text") =>
                  /\ current_section' = (IF startswith(Line, "Audio") THEN "audio"
                                                                       ELSE "text")
                  /\ current_track_type' = current_section'
                  /\ current_track' \notin DOMAIN heap
                  /\ DOMAIN heap' = (DOMAIN heap) \cup {current_track'}
                  /\ heap'[current_track'] = (IF startswith(Line, "Audio")
                                                  THEN AudioTrack ELSE SubtitleTrack)
                  /\ \A t \in DOMAIN heap : heap'[t] = heap[t]
                  /\ info'.general = info.general
                  /\ info'.video = info.video]_vars

\* the line `Audio: x` has opened a second audio track
C24_Witness ==
    /\ pc = "scan"
    /\ f = <<"Audio", "Audio: x">>
    /\ i = 2
    /\ current_track = 2
    /\ current_track_type = "audio"
    /\ heap[2] = AudioTrack

(***************************************************************************)
(* C25: the record parse_file returns is accepted by the MediaInfo model:  *)
(* every key of its general and video dicts and of its audio and subtitle  *)
(* track dicts is a field of the dataclass built from it, so _parse_info   *)
(* does not raise.                                                         *)
(* Violated: `default` is no field of AudioTrack or SubtitleTrack (nor are *)
(* movie_name, hdr_format, color_primaries, transfer_characteristics,      *)
(* title, stream_size and forced fields of the classes they are given to). *)
(***************************************************************************)
C25_ParserOutputIsAccepted ==
    pc = "done" => ~parse_info_raises(Record(info, heap))

(***************************************************************************)
(* C26: a POST to the index route with a text that is not empty, whose     *)
(* file has been written and parsed without an error, stores one record    *)
(* in the table and is answered with a redirect to the preview of that     *)
(* record; it is not answered from the except clause.                      *)
(* Violated: index() calls MediaInfoModel with the keyword `id`, which     *)
(* MediaInfo.__init__ does not take.                                       *)
(***************************************************************************)
C26_UploadIsStored ==
    [][request # NoRequest /\ request' = NoRequest /\ pc = "done" =>
           /\ response'.redirect = "preview"
           /\ response'.flash = None
           /\ DOMAIN db \subseteq DOMAIN db'
           /\ Cardinality((DOMAIN db') \ DOMAIN db) = 1
           /\ response'.media_id \in (DOMAIN db') \ DOMAIN db
           /\ db'[response'.media_id].filename = request.filename]_vars

(***************************************************************************)
(* C27: a request for a record whose expiration is earlier than the time   *)
(* of the request is answered by share, preview and download with a        *)
(* redirect to the index, without the media info and without the file, be  *)
(* the row still in the table or deleted by the sweep; a record without    *)
(* expiration is never answered as expired and its row is never deleted.   *)
(***************************************************************************)
C27_ExpiredIsNeverServed ==
    [][/\ response' # response =>
              \E id \in {response'.media_id} :
                  /\ (id \notin DOMAIN db \/ ExpirationBefore(db[id], now)) =>
                         /\ response'.redirect = "index"
                         /\ response'.media_info = None
                         /\ response'.file = None
                  /\ (id \in DOMAIN db /\ db[id].expiration = NULL) =>
                         response'.flash # "This link has expired."
       /\ \A id \in DOMAIN db :
              db[id].expiration = NULL => id \in DOMAIN db' /\ db'[id] = db[id]]_vars

\* a request for a record that had expired and whose row the sweep had not
\* deleted has been answered with the redirect
C27_Witness ==
    /\ response.route \in {"share", "preview", "download"}
    /\ response.media_id \in DOMAIN db
    /\ ExpirationBefore(db[response.media_id], response.at)
    /\ response.redirect = "index"
    /\ response.flash = "This link has expired."

(***************************************************************************)
(* C28: in every run of delete_expired_media, the rows its DELETE deletes  *)
(* are the rows whose files its SELECT selected for removal.               *)
(* Violated: the DELETE reads the clock anew; a row that expires between   *)
(* the two queries is deleted and its file is left in the upload folder.   *)
(***************************************************************************)
C28_DeletedRowsAreSelectedRows ==
    [][\A t \in Threads :
           sweep[t].pc = "delete" /\ sweep'[t].pc = "done" =>
               {db[id].filename : id \in (DOMAIN db) \ DOMAIN db'}
                   = sweep[t].expired_files]_vars

(***************************************************************************)
(* C29: a request for a record with a stored password is answered with     *)
(* the media info or with the file by share, preview and download only if  *)
(* it is a POST whose password is the stored password, decrypted.          *)
(* Violated: preview takes no password and renders the media info.         *)
(***************************************************************************)
C29_PasswordKeepsOut ==
    [][response' # response =>
           \E id \in {response'.media_id} :
               /\ id \in DOMAIN db
               /\ db[id].password # None
               /\ response'.media_info = id \/ response'.file # None
               => /\ response'.method = "POST"
                  /\ response'.password = decrypt_password(db[id].password)]_vars

=============================================================================
